---- MODULE Spec2Model ----
(***************************************************************************)
(* The in-memory UserService of the users REST example, in its two         *)
(* variants: the base service (src/users/user.service.ts), whose create    *)
(* derives the id from the array length, and the DTO service (readme2.md), *)
(* whose create draws the id from the idCounter field.  Every step is one  *)
(* synchronous call of a service method.                                   *)
(***************************************************************************)
EXTENDS Integers, Sequences, FiniteSets

\* Number of create calls explored.
MaxCreates == 3

\* Request inputs.
CreateBodies ==
    { [name |-> "Alice", email |-> "a@x.com"],
      [name |-> "Bob",   email |-> "b@x.com"],
      [name |-> "Carol", email |-> "c@x.com"] }
UpdNames  == {"Dana"}
UpdEmails == {"d@x.com"}
\* The ids a caller passes: every id a create can return and one beyond.
Ids == 1..(MaxCreates + 1)
\* UpdateUserDto: both fields optional, an omitted field is a missing key.
UpdateDtos ==
    UNION { [keys -> UpdNames \cup UpdEmails] : keys \in SUBSET {"name", "email"} }
UpdateUserDto ==
    { d \in UpdateDtos :
        /\ ("name" \in DOMAIN d => d["name"] \in UpdNames)
        /\ ("email" \in DOMAIN d => d["email"] \in UpdEmails) }

\* JavaScript's null (update's miss) and undefined (Array.find's miss).
Null      == [absent |-> "null"]
Undefined == [absent |-> "undefined"]

VARIABLES
    variant,    \* which UserService class was constructed: "base" or "dto"
    users,      \* private users: User[]
    idCounter,  \* private idCounter (DTO variant; 0 where the class has none)
    call,       \* the last method call and its arguments
    ret,        \* what the last call returned
    created,    \* history: per create call, the id it returned and whether
                \* the record it stored has since been spliced out
    live        \* history, parallel to users: the create call each stored
                \* record comes from and the fields the calls since gave it

vars == <<variant, users, idCounter, call, ret, created, live>>

----------------------------------------------------------------------------
\* Array primitives, 0-based as in the source.

\* users[i]
at(us, i) == us[i + 1]

\* Mutant of push: the record goes to the front (unshift).
unshift(us, u) == <<u>> \o us

\* Array.prototype.push
push(us, u) == Append(us, u)

\* Array.prototype.findIndex((user) => user.id === id): the first index whose
\* record has the id, -1 when there is none.
findIndex(us, id) ==
    IF \E i \in 1..Len(us) : us[i].id = id
    THEN (CHOOSE i \in 1..Len(us) :
            /\ us[i].id = id
            /\ \A j \in 1..(i - 1) : us[j].id # id) - 1
    ELSE -1

\* Mutant of splice: splice(i) without a delete count drops the whole tail.
spliceToEnd(us, i) == SubSeq(us, 1, i)

\* Array.prototype.splice(i, 1) for 0 <= i < length.
splice(us, i) ==
    [k \in 1..(Len(us) - 1) |-> IF k <= i THEN us[k] ELSE us[k + 1]]

\* users[i] = u
setAt(us, i, u) == [us EXCEPT ![i + 1] = u]

\* Mutant of spread: { ...b, ...a }, a's value where a has the key.
spreadReversed(a, b) ==
    [k \in (DOMAIN a) \cup (DOMAIN b) |-> IF k \in DOMAIN a THEN a[k] ELSE b[k]]

\* { ...a, ...b }: the keys of both, b's value where b has the key.
spread(a, b) ==
    [k \in (DOMAIN a) \cup (DOMAIN b) |-> IF k \in DOMAIN b THEN b[k] ELSE a[k]]

\* Mutant of lengthId: the length without the + 1.
zeroBasedId(us) == Len(us)

\* The id the base create assigns.
lengthId(us) == Len(us) + 1

----------------------------------------------------------------------------
Init ==
    /\ variant \in {"base", "dto"}
    /\ users = <<>>
    /\ idCounter = IF variant = "dto" THEN 1 ELSE 0
    /\ call = [op |-> "new"]
    /\ ret = Undefined
    /\ created = <<>>
    /\ live = <<>>

\* History kept by a create that stored `user`.
logCreate(user) ==
    /\ created' = Append(created, [id |-> user.id, removed |-> FALSE])
    /\ live' = Append(live, [from |-> Len(created) + 1, user |-> user])

\* Base variant: create(name, email).
create(name, email) ==
    /\ variant = "base"
    /\ Len(created) < MaxCreates
    /\ LET user == [id |-> lengthId(users), name |-> name, email |-> email] IN
         /\ users' = push(users, user)
         /\ ret' = user
         /\ logCreate(user)
    /\ call' = [op |-> "create", name |-> name, email |-> email]
    /\ UNCHANGED <<variant, idCounter>>

\* Mutant of createDto: idCounter is read and never incremented.
createDtoNoIncrement(createUserDto) ==
    /\ variant = "dto"
    /\ Len(created) < MaxCreates
    /\ LET user == spread([id |-> idCounter], createUserDto) IN
         /\ users' = push(users, user)
         /\ ret' = user
         /\ logCreate(user)
    /\ call' = [op |-> "create", name |-> createUserDto.name,
                email |-> createUserDto.email]
    /\ UNCHANGED <<variant, idCounter>>

\* DTO variant: create(createUserDto).
createDto(createUserDto) ==
    /\ variant = "dto"
    /\ Len(created) < MaxCreates
    /\ LET user == spread([id |-> idCounter], createUserDto) IN
         /\ users' = push(users, user)
         /\ ret' = user
         /\ logCreate(user)
    /\ idCounter' = idCounter + 1
    /\ call' = [op |-> "create", name |-> createUserDto.name,
                email |-> createUserDto.email]
    /\ UNCHANGED variant

findAll ==
    /\ ret' = users
    /\ call' = [op |-> "findAll"]
    /\ UNCHANGED <<variant, users, idCounter, created, live>>

\* The value of findOne(id) on a store.
find(us, id) ==
    IF findIndex(us, id) = -1 THEN Undefined ELSE at(us, findIndex(us, id))

findOne(id) ==
    /\ ret' = find(users, id)
    /\ call' = [op |-> "findOne", id |-> id]
    /\ UNCHANGED <<variant, users, idCounter, created, live>>

\* Mutant of update: the replacement record keeps the stored email.
updateForgetsEmail(id, name, email) ==
    /\ variant = "base"
    /\ LET userIndex == findIndex(users, id) IN
         IF userIndex # -1
         THEN /\ users' = setAt(users, userIndex,
                                [id |-> id, name |-> name,
                                 email |-> at(users, userIndex).email])
              /\ ret' = at(users', userIndex)
              /\ live' = [live EXCEPT ![userIndex + 1].user =
                            [id |-> @.id, name |-> name, email |-> email]]
         ELSE /\ ret' = Null
              /\ UNCHANGED <<users, live>>
    /\ call' = [op |-> "update", id |-> id, name |-> name, email |-> email]
    /\ UNCHANGED <<variant, idCounter, created>>

\* Base variant: update(id, name, email).
update(id, name, email) ==
    /\ variant = "base"
    /\ LET userIndex == findIndex(users, id) IN
         IF userIndex # -1
         THEN /\ users' = setAt(users, userIndex,
                                [id |-> id, name |-> name, email |-> email])
              /\ ret' = at(users', userIndex)
              /\ live' = [live EXCEPT ![userIndex + 1].user =
                            [id |-> @.id, name |-> name, email |-> email]]
         ELSE /\ ret' = Null
              /\ UNCHANGED <<users, live>>
    /\ call' = [op |-> "update", id |-> id, name |-> name, email |-> email]
    /\ UNCHANGED <<variant, idCounter, created>>

\* DTO variant: update(id, updateUserDto).
updateDto(id, updateUserDto) ==
    /\ variant = "dto"
    /\ LET userIndex == findIndex(users, id) IN
         IF userIndex # -1
         THEN /\ users' = setAt(users, userIndex,
                                spread(at(users, userIndex), updateUserDto))
              /\ ret' = at(users', userIndex)
              /\ live' = [live EXCEPT ![userIndex + 1].user =
                            [id |-> @.id,
                             name |-> IF "name" \in DOMAIN updateUserDto
                                      THEN updateUserDto["name"] ELSE @.name,
                             email |-> IF "email" \in DOMAIN updateUserDto
                                       THEN updateUserDto["email"] ELSE @.email]]
         ELSE /\ ret' = Null
              /\ UNCHANGED <<users, live>>
    /\ call' = [op |-> "update", id |-> id, dto |-> updateUserDto]
    /\ UNCHANGED <<variant, idCounter, created>>

\* Mutant of remove: the userIndex !== -1 test is missing, and splice(-1, 1)
\* takes the last record out.
removeUnguarded(id) ==
    /\ LET userIndex == findIndex(users, id)
           i == IF userIndex = -1 THEN Len(users) - 1 ELSE userIndex
       IN
         IF users # <<>>
         THEN /\ users' = splice(users, i)
              /\ created' = [created EXCEPT ![live[i + 1].from].removed = TRUE]
              /\ live' = [k \in 1..(Len(live) - 1) |->
                            IF k <= i THEN live[k] ELSE live[k + 1]]
         ELSE UNCHANGED <<users, created, live>>
    /\ ret' = TRUE
    /\ call' = [op |-> "remove", id |-> id]
    /\ UNCHANGED <<variant, idCounter>>

\* remove(id), the same code in both variants.
remove(id) ==
    /\ LET userIndex == findIndex(users, id) IN
         IF userIndex # -1
         THEN /\ users' = splice(users, userIndex)
              /\ ret' = TRUE
              /\ created' = [created EXCEPT
                               ![live[userIndex + 1].from].removed = TRUE]
              /\ live' = [k \in 1..(Len(live) - 1) |->
                            IF k <= userIndex THEN live[k] ELSE live[k + 1]]
         ELSE /\ ret' = FALSE
              /\ UNCHANGED <<users, created, live>>
    /\ call' = [op |-> "remove", id |-> id]
    /\ UNCHANGED <<variant, idCounter>>

Next ==
    \/ \E b \in CreateBodies : create(b.name, b.email)
    \/ \E b \in CreateBodies : createDto(b)
    \/ findAll
    \/ \E id \in Ids : findOne(id)
    \/ \E id \in Ids, name \in UpdNames, email \in UpdEmails : update(id, name, email)
    \/ \E id \in Ids, dto \in UpdateUserDto : updateDto(id, dto)
    \/ \E id \in Ids : remove(id)

Spec == Init /\ [][Next]_vars

----------------------------------------------------------------------------
\* Vocabulary of the properties.

\* The position (1-based) of the first stored record with the id.
FirstMatch(us, id) ==
    CHOOSE k \in 1..Len(us) :
        /\ us[k].id = id
        /\ \A j \in 1..(k - 1) : us[j].id # id

Matches(us, id) == \E k \in 1..Len(us) : us[k].id = id

DistinctIds(us) ==
    \A i, j \in 1..Len(us) : i # j => us[i].id # us[j].id

\* us with the record at position p taken out.
Without(us, p) ==
    [k \in 1..(Len(us) - 1) |-> IF k < p THEN us[k] ELSE us[k + 1]]

\* The stored records are those of the surviving create calls, in the order
\* of those calls.
CreationOrder ==
    /\ Len(live) = Len(users)
    /\ \A k \in 1..Len(users) : users[k] = live[k].user
    /\ \A i, j \in 1..Len(live) : i < j => live[i].from < live[j].from

NoneRemoved == \A c \in 1..Len(created) : ~created[c].removed

Alice == [name |-> "Alice", email |-> "a@x.com"]
Bob   == [name |-> "Bob",   email |-> "b@x.com"]
Carol == [name |-> "Carol", email |-> "c@x.com"]
User(id, body) == [id |-> id, name |-> body.name, email |-> body.email]
Created(body) == [op |-> "create", name |-> body.name, email |-> body.email]

----------------------------------------------------------------------------
\* C1: in the base variant, create returns a record whose id differs from
\* the id of every record stored at the moment of the call, so no two stored
\* records ever share an id.
C1_CreateReturnsFreshId ==
    variant = "base" =>
        /\ DistinctIds(users)
        /\ (call.op = "create" =>
              \A k \in 1..(Len(users) - 1) : users[k].id # ret.id)

\* C2: from an empty store, after n create calls and no removal (updates
\* allowed in between), findAll returns exactly n records in the order of
\* their create calls, and the k-th record has id k.
C2_CreatesListedInOrder ==
    NoneRemoved =>
        /\ Len(users) = Len(created)
        /\ \A k \in 1..Len(users) :
              /\ users[k].id = k
              /\ live[k].from = k
              /\ users[k] = live[k].user
        /\ (call.op = "findAll" => ret = users)

C2_Witness ==
    /\ NoneRemoved
    /\ Len(created) = 3
    /\ call.op = "findAll"
    /\ Len(ret) = 3
    /\ ret[2].name = "Dana"

\* C3: for every id some create call returned, findOne(id) returns the record
\* of that create call with the fields of its latest update if the record has
\* not been removed, and the absent value if it has been removed.
C3_FindOneTracksCreate ==
    variant = "base" =>
        \A c \in 1..Len(created) :
            IF created[c].removed
            THEN find(users, created[c].id) = Undefined
            ELSE \E k \in 1..Len(live) :
                    /\ live[k].from = c
                    /\ find(users, created[c].id) = live[k].user

\* C4: remove(id) with an id matching a stored record returns true, decreases
\* the number of stored records by exactly one, and a findOne(id) issued
\* immediately afterwards returns the absent value.
C4_RemovedIdIsAbsent ==
    [][ (call'.op = "remove" /\ Matches(users, call'.id)) =>
            /\ ret' = TRUE
            /\ Len(users') = Len(users) - 1
            /\ find(users', call'.id) = Undefined ]_vars

\* C5: for every id that matches no stored record, update returns null and
\* remove returns false, and the stored sequence is exactly what it was
\* before the call.
C5_MissLeavesStoreUnchanged ==
    [][ /\ (call'.op = "update" /\ ~Matches(users, call'.id)) =>
              (ret' = Null /\ users' = users)
        /\ (call'.op = "remove" /\ ~Matches(users, call'.id)) =>
              (ret' = FALSE /\ users' = users) ]_vars

C5_Witness ==
    /\ call.op = "remove"
    /\ ret = FALSE
    /\ Len(users) = 2
    /\ \E c \in 1..Len(created) : created[c].removed /\ created[c].id = call.id

\* C6: in the DTO variant the ids returned by successive create calls are
\* strictly increasing, an id is never reused after its record is removed,
\* and all stored records have pairwise distinct ids.
C6_CounterIdsNeverReused ==
    variant = "dto" =>
        /\ \A i, j \in 1..Len(created) : i < j => created[i].id < created[j].id
        /\ DistinctIds(users)
        /\ \A k \in 1..Len(users) : users[k].id = created[live[k].from].id
        /\ (call.op = "create" =>
              \A k \in 1..(Len(users) - 1) : users[k].id # ret.id)

C6_Witness ==
    /\ variant = "dto"
    /\ Len(created) = 3
    /\ created[1].removed
    /\ call.op = "create"
    /\ Len(users) = 2

\* C7: in the base variant the id create assigns is the number of stored
\* records plus one; hence from an empty store create(Alice), create(Bob),
\* remove(1), create(Carol) returns ids 1, 2, true, 2 and leaves two stored
\* records with id 2, while in the DTO variant Carol gets id 3.
C7_LengthDerivedIds ==
    [][ /\ (variant = "base" /\ call'.op = "create") =>
              ret'.id = Len(users) + 1
        /\ (users = <<>> /\ created = <<>> /\ call' = Created(Alice)) =>
              (ret' = User(1, Alice) /\ users' = <<User(1, Alice)>>)
        /\ (/\ users = <<User(1, Alice)>>
            /\ created = <<[id |-> 1, removed |-> FALSE]>>
            /\ call' = Created(Bob)) =>
              (ret' = User(2, Bob) /\ users' = <<User(1, Alice), User(2, Bob)>>)
        /\ (/\ users = <<User(1, Alice), User(2, Bob)>>
            /\ Len(created) = 2
            /\ call' = [op |-> "remove", id |-> 1]) =>
              (/\ ret' = TRUE
               /\ users' = <<User(2, Bob)>>
               /\ created' = <<[id |-> 1, removed |-> TRUE],
                               [id |-> 2, removed |-> FALSE]>>)
        /\ (/\ users = <<User(2, Bob)>>
            /\ created = <<[id |-> 1, removed |-> TRUE],
                           [id |-> 2, removed |-> FALSE]>>
            /\ call' = Created(Carol)) =>
              IF variant = "base"
              THEN /\ ret' = User(2, Carol)
                   /\ users' = <<User(2, Bob), User(2, Carol)>>
                   /\ Cardinality({k \in 1..Len(users') : users'[k].id = 2}) = 2
              ELSE /\ ret' = User(3, Carol)
                   /\ users' = <<User(2, Bob), User(3, Carol)>> ]_vars

C7_Witness ==
    /\ variant = "base"
    /\ call = Created(Carol)
    /\ ret = User(2, Carol)
    /\ users = <<User(2, Bob), User(2, Carol)>>
    /\ created = <<[id |-> 1, removed |-> TRUE],
                   [id |-> 2, removed |-> FALSE],
                   [id |-> 2, removed |-> FALSE]>>

\* C8: in the base variant, update(id, name, email) with a matching id
\* replaces the first matching record by {id, name, email} at the same
\* position and returns it; the number of records, the id at every position
\* and every record at any other position are unchanged.
C8_UpdateReplacesInPlace ==
    [][ (variant = "base" /\ call'.op = "update" /\ Matches(users, call'.id)) =>
            LET p == FirstMatch(users, call'.id) IN
              /\ Len(users') = Len(users)
              /\ users'[p] = [id |-> call'.id, name |-> call'.name,
                              email |-> call'.email]
              /\ ret' = users'[p]
              /\ \A k \in 1..Len(users) :
                    /\ users'[k].id = users[k].id
                    /\ (k # p => users'[k] = users[k]) ]_vars

C8_Witness ==
    /\ variant = "base"
    /\ call.op = "update"
    /\ Len(users) = 3
    /\ call.id = 2
    /\ ret = [id |-> 2, name |-> "Dana", email |-> "d@x.com"]
    /\ users[2] = ret
    /\ users[3].name = "Carol"

\* C9: remove(id) with a matching id deletes exactly one record, the first
\* one in sequence order whose id matches, and leaves every other record
\* unchanged and in the same relative order, so that findAll always lists
\* the surviving records in their creation order.
C9_RemoveDeletesFirstMatch ==
    [][ /\ (call'.op = "remove" /\ Matches(users, call'.id)) =>
              users' = Without(users, FirstMatch(users, call'.id))
        /\ CreationOrder'
        /\ (call'.op = "findAll" => ret' = users) ]_vars

C9_Witness ==
    /\ call.op = "remove"
    /\ ret = TRUE
    /\ Len(created) = 3
    /\ ~created[1].removed
    /\ created[2].removed
    /\ ~created[3].removed
    /\ Len(users) = 2

\* C10: in the DTO variant, update(id, dto) on an existing record changes
\* only the fields present in dto: an omitted field keeps its prior value,
\* the record's id and position are unchanged, and the returned record equals
\* the stored merged record.
C10_UpdateMergesDto ==
    [][ (variant = "dto" /\ call'.op = "update" /\ Matches(users, call'.id)) =>
            LET p == FirstMatch(users, call'.id)
                d == call'.dto
            IN
              /\ Len(users') = Len(users)
              /\ DOMAIN users'[p] = {"id", "name", "email"}
              /\ users'[p].id = users[p].id
              /\ users'[p].name =
                    IF "name" \in DOMAIN d THEN d["name"] ELSE users[p].name
              /\ users'[p].email =
                    IF "email" \in DOMAIN d THEN d["email"] ELSE users[p].email
              /\ ret' = users'[p]
              /\ \A k \in 1..Len(users) : k # p => users'[k] = users[k] ]_vars

C10_Witness ==
    /\ variant = "dto"
    /\ call.op = "update"
    /\ DOMAIN call.dto = {"name"}
    /\ Len(users) = 2
    /\ ret = [id |-> 3, name |-> "Dana", email |-> "c@x.com"]
    /\ users[2] = ret

====
